---- MODULE Spec2Model ----
(***************************************************************************)
(* Model of scripts/recode_multi.py: the filter that removes multiallelic  *)
(* SNPs from a GATK VariantsToTable file, keeps the two-ALT loci whose REF *)
(* is carried by no sample (noREF SNPs) and discards the single-ALT rows   *)
(* with REF=N.                                                             *)
(*                                                                         *)
(* Strings are sequences of one-character strings, so that replace, join,  *)
(* the "in" test and the f-string of the code are computed character by    *)
(* character.  AF is a number of tenths (3 stands for 0.3).  A row is a    *)
(* record; its field GT is the list of the values of the columns whose     *)
(* name contains ".GT", in column order.  A file is a list of rows whose   *)
(* fields are all text.                                                    *)
(***************************************************************************)
EXTENDS Integers, Sequences, FiniteSets

VARIABLES pc, run, tablefile, outfile, df, dfs, infile, out1

vars == <<pc, run, tablefile, outfile, df, dfs, infile, out1>>

(* ---------------------------- bounds ----------------------------------- *)

\* rows of the input table
MaxRows == 3

(* ------------------------ input alphabet ------------------------------- *)

Digits == <<"0", "1", "2", "3", "4", "5", "6", "7", "8", "9">>

\* the loci of the input: CHROM, POS (text) and the REF base of the position
InLoci ==
    { [CHROM |-> <<"c", "1">>, POS |-> <<"7">>, REF |-> <<"A">>],
      [CHROM |-> <<"c", "1">>, POS |-> <<"1", "2">>, REF |-> <<"N">>],
      [CHROM |-> <<"c", "2">>, POS |-> <<"7">>, REF |-> <<"C">>] }

InALT == { <<"T">>, <<"G">>, <<"*">> }

\* the frequency reported for an ALT allele
InAF(alt) ==
    CASE alt = <<"T">> -> <<"0", ".", "3">>
      [] alt = <<"G">> -> <<"0", ".", "4">>
      [] OTHER -> <<"0", ".", "1">>

\* the genotype columns of a row: two samples, unphased and phased calls
InGT ==
    { << <<"T", "/", "G">>, <<"G", "|", "T">> >>,
      << <<"A", "|", "C">>, <<"N", "/", "G">> >> }

InRows ==
    { [CHROM |-> l.CHROM, POS |-> l.POS, AF |-> InAF(alt), REF |-> l.REF,
       ALT |-> alt, GT |-> gt] :
         l \in InLoci, alt \in InALT, gt \in InGT }

InTables == UNION { [1..n -> InRows] : n \in 0..MaxRows }

(* ------------------------ string helpers ------------------------------- *)

\* str.replace(c, ""): every occurrence of the character c removed
StrRemove(s, c) == SelectSeq(s, LAMBDA x : x # c)

\* Series.replace(to_replace, value) on one element: whole-value match
SeriesReplace(v, to_replace, value) == IF v = to_replace THEN value ELSE v

\* ''.join(lst)
RECURSIVE Join(_)
Join(lst) == IF lst = <<>> THEN <<>> ELSE Head(lst) \o Join(Tail(lst))

\* sub in s  (Python substring test)
StrIn(sub, s) ==
    \E i \in 0..(Len(s) - Len(sub)) : SubSeq(s, i + 1, i + Len(sub)) = sub

\* x in lst  (Python list membership)
ListIn(x, lst) == \E i \in DOMAIN lst : lst[i] = x

DigitVal(c) == (CHOOSE i \in DOMAIN Digits : Digits[i] = c) - 1

\* "%s" of a non-negative integer
RECURSIVE ToStr(_)
ToStr(n) ==
    IF n < 10 THEN <<Digits[n + 1]>>
    ELSE ToStr(n \div 10) \o <<Digits[(n % 10) + 1]>>

\* integer parsed from decimal text
RECURSIVE ParseInt(_)
ParseInt(s) ==
    IF Len(s) = 1 THEN DigitVal(s[1])
    ELSE 10 * ParseInt(SubSeq(s, 1, Len(s) - 1)) + DigitVal(s[Len(s)])

\* float parsed from text "0.d", as a number of tenths
ParseAF(s) == 10 * ParseInt(SubSeq(s, 1, Len(s) - 2)) + DigitVal(s[Len(s)])

\* text of a float given in tenths
FormatAF(a) == ToStr(a \div 10) \o <<".">> \o <<Digits[(a % 10) + 1]>>

(* ---------------------------- file I/O --------------------------------- *)

\* pd.read_csv(tablefile, sep='\t'): POS becomes an integer, AF a float
read_csv(file) ==
    [i \in DOMAIN file |->
        [f \in DOMAIN file[i] |->
            CASE f = "POS" -> ParseInt(file[i][f])
              [] f = "AF" -> ParseAF(file[i][f])
              [] OTHER -> file[i][f]]]

\* df.to_csv(outfile, sep='\t', index=False): every column written as text
to_csv(d) ==
    [i \in DOMAIN d |->
        [f \in DOMAIN d[i] |->
            CASE f = "POS" -> ToStr(d[i][f])
              [] f = "AF" -> FormatAF(d[i][f])
              [] OTHER -> d[i][f]]]

(* ---------------------------- the program ------------------------------ *)

\* "%s-%s" % (chrom, pos)
locusKey(chrom, pos) == chrom \o <<"-">> \o ToStr(pos)

\* df['locus'] = [...]: the column is added, or overwritten when present
addLocus(d) ==
    [i \in DOMAIN d |->
        [f \in DOMAIN d[i] \cup {"locus"} |->
            IF f = "locus" THEN locusKey(d[i].CHROM, d[i].POS) ELSE d[i][f]]]

\* the column of a table as a list
Column(d, f) == [i \in DOMAIN d |-> d[i][f]]

\* table(lst) as a count
table(lst, x) == Cardinality({i \in DOMAIN lst : lst[i] = x})

\* the keys of table(lst) in iteration order (first appearance)
RECURSIVE tableKeys(_)
tableKeys(lst) ==
    IF lst = <<>> THEN <<>>
    ELSE LET front == SubSeq(lst, 1, Len(lst) - 1)
             last == lst[Len(lst)]
         IN IF ListIn(last, front) THEN tableKeys(front)
            ELSE Append(tableKeys(front), last)

\* adjust_freqs without the AF assignment
adjust_freqs_noAF(smalldf, alts) ==
    [smalldf EXCEPT ![1].ALT = alts[1] \o <<"+">> \o alts[2]]

\* adjust_freqs that copies the whole second row into row 0 before renaming ALT
adjust_freqs_row1(smalldf, alts) ==
    [smalldf EXCEPT ![1] = [smalldf[2] EXCEPT !.ALT = alts[1] \o <<"+">> \o alts[2]]]

adjust_freqs(smalldf, alts) ==
    [smalldf EXCEPT ![1].AF = smalldf[2].AF,
                    ![1].ALT = alts[1] \o <<"+">> \o alts[2]]

\* keep_goodloci with "<= 2" for "== 1"
keep_goodloci_le2(chunk) ==
    LET loci == Column(chunk, "locus")
        goodloci == SelectSeq(tableKeys(loci), LAMBDA l : table(loci, l) <= 2)
        c1 == SelectSeq(chunk, LAMBDA r : ListIn(r.locus, goodloci))
    IN SelectSeq(c1, LAMBDA r : r.REF # <<"N">>)

\* keep_goodloci with ">= 1" for "== 1"
keep_goodloci_ge1(chunk) ==
    LET loci == Column(chunk, "locus")
        goodloci == SelectSeq(tableKeys(loci), LAMBDA l : table(loci, l) >= 1)
        c1 == SelectSeq(chunk, LAMBDA r : ListIn(r.locus, goodloci))
    IN SelectSeq(c1, LAMBDA r : r.REF # <<"N">>)

\* keep_goodloci without the REF != 'N' filter
keep_goodloci_noN(chunk) ==
    LET loci == Column(chunk, "locus")
        goodloci == SelectSeq(tableKeys(loci), LAMBDA l : table(loci, l) = 1)
    IN SelectSeq(chunk, LAMBDA r : ListIn(r.locus, goodloci))

keep_goodloci(chunk) ==
    LET loci == Column(chunk, "locus")
        goodloci == SelectSeq(tableKeys(loci), LAMBDA l : table(loci, l) = 1)
        c1 == SelectSeq(chunk, LAMBDA r : ListIn(r.locus, goodloci))
    IN SelectSeq(c1, LAMBDA r : r.REF # <<"N">>)

rm_multiallelic(d) == keep_goodloci(d)

\* the string of alleles of one row
gts(row) ==
    StrRemove(
        Join([i \in DOMAIN row.GT |->
                SeriesReplace(StrRemove(row.GT[i], "/"), <<"|">>, <<>>)]),
        "N")

\* the loop leaving after the first row whatever it found
noref_keep_first(smalldf, ref) == ~StrIn(ref, gts(smalldf[1]))

\* the loop over the rows of smalldf that computes keep
noref_keep(smalldf, ref) == \A row \in DOMAIN smalldf : ~StrIn(ref, gts(smalldf[row]))

\* the loci with exactly two rows, in the order of the counter
noref_nloci(d) ==
    LET loci == Column(d, "locus")
    IN SelectSeq(tableKeys(loci), LAMBDA l : table(loci, l) = 2)

\* the body of the loop over nloci: the list of frames appended for one locus
noref_locus(ndf, locus) ==
    LET smalldf == SelectSeq(ndf, LAMBDA r : r.locus = locus)
    IN IF Len(smalldf) = 2
       THEN LET ref == smalldf[1].REF
                alts == Column(smalldf, "ALT")
            IN IF noref_keep(smalldf, ref) /\ ~ListIn(<<"*">>, alts)
               THEN << <<adjust_freqs(smalldf, alts)[1]>> >>
               ELSE <<>>
       ELSE <<>>

get_noref_snps(d) ==
    LET nloci == noref_nloci(d)
        ndf == SelectSeq(d, LAMBDA r : ListIn(r.locus, nloci))
    IN Join([k \in DOMAIN nloci |-> noref_locus(ndf, nloci[k])])

\* pd.concat(dfs)
concat(frames) == Join(frames)

\* recombine that concatenates dfs + [df] after the append
recombine_dup(frames, d) ==
    IF Len(frames) > 0
    THEN IF Len(d) > 0 THEN concat(Append(frames, d)) \o d ELSE concat(frames)
    ELSE d

\* recombine that overwrites df with the noREF SNPs whenever there are some
recombine_dropclean(frames, d) ==
    IF Len(frames) > 0 THEN concat(frames) ELSE d

\* recombine that returns df as-is when df is empty
recombine_droprescued(frames, d) ==
    IF Len(frames) > 0 /\ Len(d) > 0 THEN concat(Append(frames, d)) ELSE d

\* recombine returns df; the list dfs of the caller is extended in place
recombine(frames, d) ==
    IF Len(frames) > 0
    THEN IF Len(d) > 0 THEN concat(Append(frames, d)) ELSE concat(frames)
    ELSE d

recombine_dfs(frames, d) ==
    IF Len(frames) > 0 /\ Len(d) > 0 THEN Append(frames, d) ELSE frames

(* ---------------------------- actions ---------------------------------- *)

Init ==
    /\ pc = "read"
    /\ run = 1
    /\ tablefile \in InTables
    /\ infile = tablefile
    /\ outfile = <<>>
    /\ out1 = <<>>
    /\ df = <<>>
    /\ dfs = <<>>

\* main: df = pd.read_csv(tablefile, sep='\t')
Read ==
    /\ pc = "read"
    /\ df' = read_csv(tablefile)
    /\ pc' = "key"
    /\ UNCHANGED <<run, tablefile, outfile, dfs, infile, out1>>

\* main: df['locus'] = ...
Key ==
    /\ pc = "key"
    /\ df' = addLocus(df)
    /\ pc' = "getnoref"
    /\ UNCHANGED <<run, tablefile, outfile, dfs, infile, out1>>

\* main: dfs = get_noref_snps(df, tablefile)
GetNorefSnps ==
    /\ pc = "getnoref"
    /\ dfs' = get_noref_snps(df)
    /\ pc' = "rmmulti"
    /\ UNCHANGED <<run, tablefile, outfile, df, infile, out1>>

\* main: df = rm_multiallelic(df, tablefile)
RmMultiallelic ==
    /\ pc = "rmmulti"
    /\ df' = rm_multiallelic(df)
    /\ pc' = "recombine"
    /\ UNCHANGED <<run, tablefile, outfile, dfs, infile, out1>>

\* main: df = recombine(dfs, df)
Recombine ==
    /\ pc = "recombine"
    /\ df' = recombine(dfs, df)
    /\ dfs' = recombine_dfs(dfs, df)
    /\ pc' = "write"
    /\ UNCHANGED <<run, tablefile, outfile, infile, out1>>

\* main: df.to_csv(outfile, sep='\t', index=False)
Write ==
    /\ pc = "write"
    /\ outfile' = to_csv(df)
    /\ out1' = IF run = 1 THEN to_csv(df) ELSE out1
    /\ pc' = "done"
    /\ UNCHANGED <<run, tablefile, df, dfs, infile>>

\* the tool is run again, with the file it wrote as its tablefile
Rerun ==
    /\ pc = "done"
    /\ run = 1
    /\ run' = 2
    /\ tablefile' = outfile
    /\ outfile' = <<>>
    /\ df' = <<>>
    /\ dfs' = <<>>
    /\ pc' = "read"
    /\ UNCHANGED <<infile, out1>>

Next ==
    \/ Read
    \/ Key
    \/ GetNorefSnps
    \/ RmMultiallelic
    \/ Recombine
    \/ Write
    \/ Rerun

Spec == Init /\ [][Next]_vars

(* ------------------------ vocabulary of the claims --------------------- *)

\* the first run has written its file (out1 is that file from then on)
Done1 == run = 2 \/ pc = "done"

Done2 == run = 2 /\ pc = "done"

SameLocus(a, b) == a.CHROM = b.CHROM /\ a.POS = b.POS

\* the rows of a file at the locus of row r, in file order
RowsAt(file, r) == SelectSeq(file, LAMBDA x : SameLocus(x, r))

\* a file row without the derived column
Plain(r) == [f \in DOMAIN r \ {"locus"} |-> r[f]]

\* the character ref occurs in the genotype string of some sample of row r
RefAppears(r, ref) == \E s \in DOMAIN r.GT : StrIn(ref, r.GT[s])

NoStar(rs) == \A k \in DOMAIN rs : rs[k].ALT # <<"*">>

IsRescuable(rs) ==
    /\ Len(rs) = 2
    /\ \A k \in 1..2 : ~RefAppears(rs[k], rs[1].REF)
    /\ NoStar(rs)

(* C1: a locus with exactly two input rows, whose REF occurs in no sample  *)
(* genotype of either row and whose ALTs are not "*", has exactly one row  *)
(* in the output of main, with ALT "<alt1>+<alt2>" in input order and the  *)
(* AF of the second row.                                                   *)
C1_RescuedRow ==
    Done1 =>
        \A i \in DOMAIN infile :
            LET rs == RowsAt(infile, infile[i])
                os == RowsAt(out1, infile[i])
            IN IsRescuable(rs) =>
                  /\ Len(os) = 1
                  /\ os[1].ALT = rs[1].ALT \o <<"+">> \o rs[2].ALT
                  /\ os[1].AF = rs[2].AF

C1_Witness ==
    /\ Done1
    /\ \E i \in DOMAIN infile :
          LET rs == RowsAt(infile, infile[i])
          IN /\ IsRescuable(rs)
             /\ rs[1].AF # rs[2].AF
             /\ rs[1].ALT # rs[2].ALT
             /\ Len(RowsAt(out1, infile[i])) = 1

(* C2 as stated: a locus with exactly two input rows whose REF character   *)
(* occurs in some sample's genotype string in either row has no row in the *)
(* output of main.                                                         *)
C2_AsStated ==
    Done1 =>
        \A i \in DOMAIN infile :
            LET rs == RowsAt(infile, infile[i])
            IN (Len(rs) = 2 /\ \E k \in 1..2 : RefAppears(rs[k], rs[1].REF))
                  => Len(RowsAt(out1, infile[i])) = 0

(* C2 amended: a locus with exactly two input rows whose REF is not "N"    *)
(* and occurs in some sample's genotype string in either row has no row in *)
(* the output of main.                                                     *)
C2_RefPresentDiscarded ==
    Done1 =>
        \A i \in DOMAIN infile :
            LET rs == RowsAt(infile, infile[i])
            IN (/\ Len(rs) = 2
                /\ rs[1].REF # <<"N">>
                /\ \E k \in 1..2 : RefAppears(rs[k], rs[1].REF))
                  => Len(RowsAt(out1, infile[i])) = 0

C2_Witness ==
    /\ Done1
    /\ Len(out1) > 0
    /\ \E i \in DOMAIN infile :
          LET rs == RowsAt(infile, infile[i])
          IN /\ Len(rs) = 2
             /\ rs[1].REF # <<"N">>
             /\ NoStar(rs)
             /\ ~RefAppears(rs[1], rs[1].REF)
             /\ RefAppears(rs[2], rs[1].REF)
             /\ Len(RowsAt(out1, infile[i])) = 0

(* C3 as stated: main run on the file main wrote gives that file again.    *)
C3_AsStated == Done2 => outfile = out1

(* C3 amended: main run on the file main wrote gives that file without its *)
(* rows whose REF is "N", the other rows unchanged and in the same order;  *)
(* it gives the same file when no row of it has REF "N".                   *)
C3_SecondRun ==
    Done2 => outfile = SelectSeq(out1, LAMBDA r : r.REF # <<"N">>)

C3_Witness ==
    /\ Done2
    /\ Len(outfile) >= 2
    /\ outfile = out1
    /\ \E j \in DOMAIN out1 : ListIn("+", out1[j].ALT)
    /\ \E j \in DOMAIN out1 : ~ListIn("+", out1[j].ALT)

(* C4: no locus key occurs twice in the table recombine returns; the loci  *)
(* of the rescued rows and the loci of the filtered table are disjoint and *)
(* each list has at most one row per locus.                                *)
C4_UniqueLoci ==
    /\ (pc = "recombine" =>
          LET res == concat(dfs)
          IN /\ \A a \in DOMAIN res : \A b \in DOMAIN df :
                    res[a].locus # df[b].locus
             /\ \A a, b \in DOMAIN res : res[a].locus = res[b].locus => a = b
             /\ \A a, b \in DOMAIN df : df[a].locus = df[b].locus => a = b)
    /\ (pc \in {"write", "done"} =>
          \A a, b \in DOMAIN df : df[a].locus = df[b].locus => a = b)

C4_Witness ==
    /\ pc = "write"
    /\ run = 1
    /\ \E a, b \in DOMAIN df :
          /\ ListIn("+", df[a].ALT)
          /\ ~ListIn("+", df[b].ALT)

(* C5: the row of a locus with exactly one input row and REF other than    *)
(* "N" is in the output of main exactly once, every input field unchanged. *)
C5_SingleRowKept ==
    Done1 =>
        \A i \in DOMAIN infile :
            (Len(RowsAt(infile, infile[i])) = 1 /\ infile[i].REF # <<"N">>)
               => LET os == RowsAt(out1, infile[i])
                  IN Len(os) = 1 /\ Plain(os[1]) = infile[i]

C5_Witness ==
    /\ Done1
    /\ \E j \in DOMAIN out1 : ListIn("+", out1[j].ALT)
    /\ \E i \in DOMAIN infile :
          /\ Len(RowsAt(infile, infile[i])) = 1
          /\ infile[i].REF # <<"N">>
          /\ Len(RowsAt(out1, infile[i])) = 1

(* C6: a locus with more than two input rows has no row in the output of   *)
(* main, whatever its REF, ALT and genotypes.                              *)
C6_ManyRowsDiscarded ==
    Done1 =>
        \A i \in DOMAIN infile :
            Len(RowsAt(infile, infile[i])) > 2
               => Len(RowsAt(out1, infile[i])) = 0

C6_Witness ==
    /\ Done1
    /\ \E i \in DOMAIN infile :
          LET rs == RowsAt(infile, infile[i])
          IN /\ Len(rs) > 2
             /\ NoStar(rs)
             /\ \A k \in DOMAIN rs : ~RefAppears(rs[k], rs[1].REF)
             /\ Len(RowsAt(out1, infile[i])) = 0

\* the rows get_noref_snps flattens: those of the loci with exactly two rows
FlattenedRows ==
    {i \in DOMAIN df : ListIn(df[i].locus, noref_nloci(df))}

(* C7: the character sequence REF is tested against is the concatenation   *)
(* of the row's genotype strings with every "/", "|" and "N" removed and   *)
(* all other characters kept in order.                                     *)
C7_Flattened ==
    (pc = "getnoref" /\ run = 1) =>
        \A i \in FlattenedRows :
            gts(df[i]) =
                SelectSeq(Join(df[i].GT), LAMBDA c : c \notin {"/", "|", "N"})

(* C8: a rescued row equals the first row of its locus in every field but  *)
(* AF and ALT, which are the second row's AF and the two ALTs joined, and  *)
(* get_noref_snps leaves the table it was given unchanged.                 *)
C8_RescueFrame ==
    [][pc = "getnoref" =>
          /\ df' = df
          /\ \A k \in DOMAIN dfs' :
                /\ Len(dfs'[k]) = 1
                /\ LET r == dfs'[k][1]
                       rs == SelectSeq(df, LAMBDA x : x.locus = r.locus)
                   IN /\ Len(rs) = 2
                      /\ DOMAIN r = DOMAIN rs[1]
                      /\ \A f \in DOMAIN r \ {"AF", "ALT"} : r[f] = rs[1][f]
                      /\ r.AF = rs[2].AF
                      /\ r.ALT = rs[1].ALT \o <<"+">> \o rs[2].ALT]_vars

C8_Witness ==
    /\ pc = "rmmulti"
    /\ run = 1
    /\ \E k \in DOMAIN dfs :
          LET rs == SelectSeq(df, LAMBDA x : x.locus = dfs[k][1].locus)
          IN rs[1].GT # rs[2].GT /\ rs[1].AF # rs[2].AF

C10_AsStated ==
    Done1 => \A j \in DOMAIN out1 : out1[j].REF # <<"N">>

(* C10 amended: no row of the output of main that comes from a locus with  *)
(* one input row has REF "N"; a row of the output with REF "N" is the      *)
(* rescued row of a locus with exactly two input rows.                     *)
C10_RefNOnlyRescued ==
    Done1 =>
        \A j \in DOMAIN out1 :
            out1[j].REF = <<"N">> =>
                /\ Len(RowsAt(infile, out1[j])) = 2
                /\ ListIn("+", out1[j].ALT)

C10_Witness ==
    /\ Done1
    /\ \E j \in DOMAIN out1 : out1[j].REF = <<"N">>
    /\ \E j \in DOMAIN out1 : out1[j].REF # <<"N">>

====
